---- MODULE Spec2Model ----
(***************************************************************************)
(* Model of src/empty_query.py: the OLX harvester.                         *)
(*                                                                         *)
(*   main            loops over the location ids, one insert_to_db each    *)
(*   insert_to_db    search_olx_data, then connect and append in chunks    *)
(*   search_olx_data the paginated fetch and the per-listing normalization *)
(*   create_engine_with_retry  the connection loop                         *)
(*                                                                         *)
(* The remote API, the database and the clock are the environment: each    *)
(* GET, each connection attempt and each chunk append has its outcome      *)
(* chosen nondeterministically.  calls, log and responses record what the  *)
(* current insert_to_db call has done; they are reset, with the locals of  *)
(* the call, once it has returned.                                         *)
(***************************************************************************)
EXTENDS Integers, Sequences, FiniteSets, TLC

VARIABLES
    pc,             \* position of the single thread of control
    location_id,    \* main: the loop variable (line 171)
    max_pages,      \* search_olx_data: argument
    chunk_size,     \* insert_to_db: argument
    page_num,       \* search_olx_data: page counter (line 61)
    params_page,    \* search_olx_data: params['page'], NoPage when the key is absent
    ads_data_list,  \* search_olx_data: the accumulated records; then insert_to_db's df
    exit,           \* how search_olx_data ended: the break of line 85 or 113, or the while test
    attempt,        \* create_engine_with_retry: loop variable (line 126)
    engine,         \* insert_to_db: the engine returned by create_engine_with_retry
    start,          \* insert_to_db: loop variable of the chunk loop (line 155)
    appended,       \* the chunks appended to the table by the current call, in call order
    responses,      \* the responses received by the current search_olx_data call, in order
    calls,          \* external calls of the current insert_to_db call (GET, sleep, connect, to_sql)
    log,            \* log events of the current insert_to_db call
    escaped,        \* the exception that left main, NoException while none did
    retry_limit     \* RETRY_LIMIT, the module global of line 51

vars == <<pc, location_id, max_pages, chunk_size, page_num, params_page,
          ads_data_list, exit, attempt, engine, start, appended, responses,
          calls, log, escaped, retry_limit>>

----------------------------------------------------------------------------
(* Bounds of the model *)

\* max_pages is drawn from 0..MaxPages (the code passes 15, the default is 5)
MaxPages == 3
\* a page response carries at most MaxListings listings
MaxListings == 2
\* chunk_size is drawn from 1..MaxChunk (the default is 1000)
MaxChunk == 2
\* main visits NumLocations location ids (the code visits 198)
NumLocations == 2
\* where RETRY_LIMIT is left open it is drawn from 0..MaxRetryLimit
MaxRetryLimit == 2

(* Program constants *)

RETRY_LIMIT == 10
RETRY_DELAY == 2
PAGE_DELAY == 5
KEY_DELAY == 5
FIRST_LOCATION == 4000001

NoPage == -1
NoException == "none"

----------------------------------------------------------------------------
(* Raw listings and their normalization (lines 87-108) *)

\* the keys read with ads_data[...]: a missing key raises KeyError
IndexedFields == <<"id", "title", "price", "description", "created_at">>

\* the keys read with ads_data.get(..., default)
DefaultedFields == {"locations_resolved", "main_info", "artificial_boost",
                    "created_at_first", "locations", "has_promotion",
                    "category_id", "user_id", "favorites", "user_type"}

IndexedSet == {IndexedFields[i] : i \in 1..Len(IndexedFields)}

SourceFields == IndexedSet \cup DefaultedFields

\* the default of ads_data.get for each defaulted key, as a Python value
GetDefault(f) ==
    CASE f \in {"locations_resolved", "main_info", "locations"} -> "py:{}"
      [] f = "has_promotion" -> "py:False"
      [] OTHER -> "py:None"

\* json.dumps on the Python values of the model
json_dumps(v) ==
    CASE v = "py:{}" -> "{}"
      [] v = "py:False" -> "false"
      [] v = "py:True" -> "true"
      [] v = "py:None" -> "null"
      [] v = "py:str" -> "\"str\""
      [] v = "py:int" -> "1"
      [] v = "py:dict" -> "{\"k\": 1}"
      [] OTHER -> "?"

now == "datetime.now()"

\* the value the API sends for a field that is present, other than the id
FieldValue(f) ==
    CASE f \in {"title", "description", "created_at", "created_at_first",
                "user_id", "user_type"} -> "py:str"
      [] f \in {"price", "locations_resolved", "main_info", "locations"} -> "py:dict"
      [] f = "has_promotion" -> "py:True"
      [] OTHER -> "py:int"

\* a raw listing: the fields it has, with their values
Listing(present, id) == [f \in present |-> IF f = "id" THEN id ELSE FieldValue(f)]

\* the field sets the i-th listing of a 'data' array may have.  Well-formed
\* listings: complete when i is odd, with none of the defaulted keys when i is
\* even.  Malformed listings: complete but for one indexed key.
Shapes(i) ==
    {IF i % 2 = 1 THEN SourceFields ELSE IndexedSet}
        \cup {SourceFields \ {f} : f \in IndexedSet}

\* dict.get(key, default)
DictGet(d, f, default) == IF f \in DOMAIN d THEN d[f] ELSE default

\* the first key of the dict literal of lines 88-107 whose evaluation raises
\* KeyError, 0 when none does
FirstMissingIndex(ads_data) ==
    LET missing == {i \in 1..Len(IndexedFields) : IndexedFields[i] \notin DOMAIN ads_data}
    IN  IF missing = {} THEN 0
        ELSE CHOOSE i \in missing : \A j \in missing : i <= j

RaisesKeyError(ads_data) == FirstMissingIndex(ads_data) # 0

\* the dict literal of lines 88-107, for a listing on which it does not raise
useful_data(ads_data, location, page) ==
    [id                 |-> ads_data["id"],
     title              |-> ads_data["title"],
     price              |-> json_dumps(ads_data["price"]),
     description        |-> json_dumps(ads_data["description"]),
     created_at         |-> json_dumps(ads_data["created_at"]),
     locations_resolved |-> json_dumps(DictGet(ads_data, "locations_resolved", GetDefault("locations_resolved"))),
     main_info          |-> json_dumps(DictGet(ads_data, "main_info", GetDefault("main_info"))),
     artificial_boost   |-> json_dumps(DictGet(ads_data, "artificial_boost", GetDefault("artificial_boost"))),
     created_at_first   |-> json_dumps(DictGet(ads_data, "created_at_first", GetDefault("created_at_first"))),
     locations          |-> json_dumps(DictGet(ads_data, "locations", GetDefault("locations"))),
     location_search    |-> location,
     page               |-> page,
     inserted_at        |-> now,
     has_promotion      |-> json_dumps(DictGet(ads_data, "has_promotion", GetDefault("has_promotion"))),
     category_id        |-> json_dumps(DictGet(ads_data, "category_id", GetDefault("category_id"))),
     user_id            |-> json_dumps(DictGet(ads_data, "user_id", GetDefault("user_id"))),
     favorites          |-> json_dumps(DictGet(ads_data, "favorites", GetDefault("favorites"))),
     user_type          |-> json_dumps(DictGet(ads_data, "user_type", GetDefault("user_type")))]

\* the index of the first listing of the page on which line 88 raises, 0 when none
FirstRaising(ads_data_arr) ==
    LET bad == {i \in 1..Len(ads_data_arr) : RaisesKeyError(ads_data_arr[i])}
    IN  IF bad = {} THEN 0
        ELSE CHOOSE i \in bad : \A j \in bad : i <= j

\* a bug: the records carry a one-based page number
AppendListingsOneBased(list, ads_data_arr, n, location, page) ==
    list \o [i \in 1..n |-> useful_data(ads_data_arr[i], location, page + 1)]

\* the for loop of lines 87-108 run over the first n listings of a page
AppendListings(list, ads_data_arr, n, location, page) ==
    list \o [i \in 1..n |-> useful_data(ads_data_arr[i], location, page)]

----------------------------------------------------------------------------
(* The environment's answers *)

\* the 'data' arrays of n listings; the listings of one response have the
\* ids 1..n in the order of the array
DataArrays(n) ==
    LET shapes == {sh \in [1..n -> UNION {Shapes(i) : i \in 1..n}] :
                      \A i \in 1..n : sh[i] \in Shapes(i)}
    IN  {[i \in 1..n |-> Listing(sh[i], i)] : sh \in shapes}

\* the lengths of the 'data' arrays: an empty page, a page of one listing,
\* a full page
PageSizes == {0, 1, MaxListings}

\* a response: the request failed (transport error or non-2xx status, a
\* RequestException of lines 78-79), or it carries the 'data' array
Responses ==
    {[ok |-> FALSE, data |-> <<>>]}
        \cup {[ok |-> TRUE, data |-> d] : d \in UNION {DataArrays(n) : n \in PageSizes}}

ConnectOutcomes == {"ok", "SQLAlchemyError", "Exception"}
AppendOutcomes == {"ok", "SQLAlchemyError", "Exception"}

Call(op, arg) == [op |-> op, arg |-> arg]
Log(level, msg, arg) == [level |-> level, msg |-> msg, arg |-> arg]

----------------------------------------------------------------------------
(* main (lines 168-173) *)

LastLocation == FIRST_LOCATION + NumLocations - 1

InitState ==
    /\ pc = "main_loop"
    /\ location_id = FIRST_LOCATION - 1
    /\ max_pages = 0
    /\ chunk_size = 1
    /\ page_num = 0
    /\ params_page = NoPage
    /\ ads_data_list = <<>>
    /\ exit = "running"
    /\ attempt = 0
    /\ engine = "None"
    /\ start = 0
    /\ appended = <<>>
    /\ responses = <<>>
    /\ calls = <<>>
    /\ log = <<>>
    /\ escaped = NoException

\* the program as written: RETRY_LIMIT = 10
Init ==
    /\ InitState
    /\ retry_limit = RETRY_LIMIT

\* line 171-172 and the entry of insert_to_db and of search_olx_data
\* (lines 142-144, 59-71): the next location id is taken and the fetch starts.
\* Before the first pass location_id is FIRST_LOCATION - 1.
InsertToDb(mp, cs) ==
    /\ pc = "main_loop"
    /\ location_id < LastLocation
    /\ location_id' = location_id + 1
    /\ max_pages' = mp
    /\ chunk_size' = cs
    /\ page_num' = 0
    /\ params_page' = NoPage
    /\ ads_data_list' = <<>>
    /\ exit' = "running"
    /\ attempt' = 0
    /\ engine' = "None"
    /\ start' = 0
    /\ appended' = <<>>
    /\ responses' = <<>>
    /\ calls' = <<>>
    /\ log' = <<>>
    /\ pc' = "while"
    /\ UNCHANGED <<escaped, retry_limit>>

\* the range of line 171 is exhausted: main returns
MainReturn ==
    /\ pc = "main_loop"
    /\ location_id >= LastLocation
    /\ pc' = "done"
    /\ UNCHANGED <<retry_limit, location_id, max_pages, chunk_size, page_num, params_page,
                   ads_data_list, exit, attempt, engine, start, appended,
                   responses, calls, log, escaped>>

\* insert_to_db has returned and its locals are gone; line 173
MainSleep ==
    /\ pc = "main_sleep"
    /\ max_pages' = 0
    /\ chunk_size' = 1
    /\ page_num' = 0
    /\ params_page' = NoPage
    /\ ads_data_list' = <<>>
    /\ exit' = "running"
    /\ attempt' = 0
    /\ engine' = "None"
    /\ start' = 0
    /\ appended' = <<>>
    /\ responses' = <<>>
    /\ log' = <<>>
    /\ calls' = <<Call("sleep", KEY_DELAY)>>
    /\ pc' = "main_loop"
    /\ UNCHANGED <<retry_limit, location_id, escaped>>

----------------------------------------------------------------------------
(* search_olx_data (lines 59-117) *)

\* a bug: one pass too many
WhileConditionInclusive(p, mp) == p <= mp

\* the while condition of line 73
WhileCondition(p, mp) == p < mp

\* line 110
NextPageNum(p) == p + 1

\* a bug: the parameter is one page behind the counter
PageParamLags(old, p) == IF p > 1 THEN p - 1 ELSE old

\* lines 75-76: the page parameter of the request for page p
PageParam(old, p) == IF p > 0 THEN p ELSE old

\* line 73: the test of the while loop; when it fails the function returns (line 117)
WhileTest ==
    /\ pc = "while"
    /\ IF WhileCondition(page_num, max_pages)
       THEN /\ pc' = "try"
            /\ exit' = exit
       ELSE /\ pc' = "fetched"
            /\ exit' = "max_pages"
    /\ UNCHANGED <<retry_limit, location_id, max_pages, chunk_size, page_num, params_page,
                   ads_data_list, attempt, engine, start, appended, responses,
                   calls, log, escaped>>

\* a bug: the handler logs and the loop goes on instead of breaking
RequestFailedContinues(resp) ==
    /\ ~resp.ok
    /\ log' = Append(log, Log("error", "page_error", page_num))
    /\ pc' = "sleep"
    /\ UNCHANGED <<page_num, ads_data_list, exit, escaped>>

\* a bug: the handler gives up the records of the earlier pages
RequestFailedDropsRecords(resp) ==
    /\ ~resp.ok
    /\ log' = Append(log, Log("error", "page_error", page_num))
    /\ ads_data_list' = <<>>
    /\ exit' = "request_failed"
    /\ pc' = "fetched"
    /\ UNCHANGED <<page_num, escaped>>

\* lines 78-79 raise RequestException: lines 111-113 log it and break
RequestFailed(resp) ==
    /\ ~resp.ok
    /\ log' = Append(log, Log("error", "page_error", page_num))
    /\ exit' = "request_failed"
    /\ pc' = "fetched"
    /\ UNCHANGED <<page_num, ads_data_list, escaped>>

\* a bug: an empty page is passed over instead of ending the loop
EmptyPageContinues(resp) ==
    /\ resp.ok
    /\ resp.data = <<>>
    /\ page_num' = page_num + 1
    /\ pc' = "sleep"
    /\ UNCHANGED <<ads_data_list, exit, log, escaped>>

\* lines 83-85: the 'data' array is empty
EmptyPage(resp) ==
    /\ resp.ok
    /\ resp.data = <<>>
    /\ log' = Append(log, Log("info", "no_more_data", page_num))
    /\ exit' = "empty_page"
    /\ pc' = "fetched"
    /\ UNCHANGED <<page_num, ads_data_list, escaped>>

\* lines 87-110: every listing of the page is normalized and the counter moves on
PageNormalized(resp) ==
    /\ resp.ok
    /\ resp.data # <<>>
    /\ FirstRaising(resp.data) = 0
    /\ ads_data_list' = AppendListings(ads_data_list, resp.data, Len(resp.data),
                                        location_id, page_num)
    /\ page_num' = NextPageNum(page_num)
    /\ pc' = "sleep"
    /\ UNCHANGED <<exit, log, escaped>>

\* lines 87-108: the dict literal raises KeyError on a listing; no handler of
\* search_olx_data (line 111), insert_to_db (line 144 is outside the try of
\* line 152) or main catches it
ListingRaises(resp) ==
    /\ resp.ok
    /\ resp.data # <<>>
    /\ FirstRaising(resp.data) # 0
    /\ ads_data_list' = AppendListings(ads_data_list, resp.data,
                                        FirstRaising(resp.data) - 1,
                                        location_id, page_num)
    /\ escaped' = "KeyError"
    /\ pc' = "crashed"
    /\ UNCHANGED <<page_num, exit, log>>

\* lines 74-113: one pass of the try block
FetchPage(resp) ==
    /\ pc = "try"
    /\ params_page' = PageParam(params_page, page_num)
    /\ calls' = Append(calls, Call("GET", params_page'))
    /\ responses' = Append(responses, resp)
    /\ \/ RequestFailed(resp)
       \/ EmptyPage(resp)
       \/ PageNormalized(resp)
       \/ ListingRaises(resp)
    /\ UNCHANGED <<retry_limit, location_id, max_pages, chunk_size, attempt, engine, start,
                   appended>>

\* a bug: the loop goes on without the pause
FetchSleepSkipped ==
    /\ pc = "sleep"
    /\ pc' = "while"
    /\ UNCHANGED <<retry_limit, location_id, max_pages, chunk_size, page_num, params_page,
                   ads_data_list, exit, attempt, engine, start, appended,
                   responses, calls, log, escaped>>

\* line 115
FetchSleep ==
    /\ pc = "sleep"
    /\ calls' = Append(calls, Call("sleep", PAGE_DELAY))
    /\ pc' = "while"
    /\ UNCHANGED <<retry_limit, location_id, max_pages, chunk_size, page_num, params_page,
                   ads_data_list, exit, attempt, engine, start, appended,
                   responses, log, escaped>>

----------------------------------------------------------------------------
(* create_engine_with_retry (lines 119-140) *)

\* a bug: the last failed attempt is followed by a pause instead of the raise
MayRetryAlways(a) == a < retry_limit

\* a bug: the last attempt is given up one pass early
MayRetryOneLess(a) == a < retry_limit - 2

\* line 135: a failed attempt is followed by another one
MayRetry(a) == a < retry_limit - 1

\* lines 128-132: the engine is created and its connection verified
ConnectOk(outcome) ==
    /\ outcome = "ok"
    /\ log' = Append(log, Log("info", "connected", attempt))
    /\ engine' = "engine"
    /\ start' = 0
    /\ pc' = "chunks"

\* lines 133-137: SQLAlchemyError on an attempt that is not the last
ConnectRetry(outcome) ==
    /\ outcome = "SQLAlchemyError"
    /\ MayRetry(attempt)
    /\ log' = log \o <<Log("error", "connect_error", attempt + 1),
                        Log("info", "retrying", RETRY_DELAY)>>
    /\ pc' = "retry_sleep"
    /\ UNCHANGED <<engine, start>>

\* a bug: the last failure is logged and not raised, and the function
\* returns without an engine
ConnectGiveUpReturns(outcome) ==
    /\ outcome = "SQLAlchemyError"
    /\ ~(attempt < retry_limit - 1)
    /\ log' = log \o <<Log("error", "connect_error", attempt + 1),
                        Log("error", "max_retries", retry_limit)>>
    /\ start' = 0
    /\ pc' = "chunks"
    /\ UNCHANGED engine

\* lines 133-134, 138-140: SQLAlchemyError on the last attempt is raised again,
\* and caught by insert_to_db (lines 161-162)
ConnectGiveUp(outcome) ==
    /\ outcome = "SQLAlchemyError"
    /\ ~MayRetry(attempt)
    /\ log' = log \o <<Log("error", "connect_error", attempt + 1),
                        Log("error", "max_retries", retry_limit),
                        Log("error", "insert_sqlalchemy_error", location_id)>>
    /\ pc' = "main_sleep"
    /\ UNCHANGED <<engine, start>>

\* lines 128-130 raise something that is no SQLAlchemyError: line 133 does not
\* catch it, insert_to_db does (lines 163-164)
ConnectOtherError(outcome) ==
    /\ outcome = "Exception"
    /\ log' = Append(log, Log("error", "insert_unexpected_error", location_id))
    /\ pc' = "main_sleep"
    /\ UNCHANGED <<engine, start>>

\* lines 126-140: one pass of the for loop
ConnectAttempt(outcome) ==
    /\ pc = "connect"
    /\ attempt < retry_limit
    /\ calls' = Append(calls, Call("connect", attempt))
    /\ \/ ConnectOk(outcome)
       \/ ConnectRetry(outcome)
       \/ ConnectGiveUp(outcome)
       \/ ConnectOtherError(outcome)
    /\ UNCHANGED <<retry_limit, location_id, max_pages, chunk_size, page_num, params_page,
                   ads_data_list, exit, attempt, appended, responses, escaped>>

\* a bug: the next attempt is made without the pause
RetrySleepSkipped ==
    /\ pc = "retry_sleep"
    /\ attempt' = attempt + 1
    /\ pc' = "connect"
    /\ UNCHANGED <<retry_limit, location_id, max_pages, chunk_size, page_num, params_page,
                   ads_data_list, exit, engine, start, appended, responses,
                   calls, log, escaped>>

\* line 126: the range is exhausted without a return or a raise, and the
\* function returns None; insert_to_db goes on to the chunk loop
ConnectLoopEnd ==
    /\ pc = "connect"
    /\ ~(attempt < retry_limit)
    /\ engine' = "None"
    /\ start' = 0
    /\ pc' = "chunks"
    /\ UNCHANGED <<retry_limit, location_id, max_pages, chunk_size, page_num,
                   params_page, ads_data_list, exit, attempt, appended,
                   responses, calls, log, escaped>>

\* line 137, and the step of the for loop of line 126
RetrySleep ==
    /\ pc = "retry_sleep"
    /\ calls' = Append(calls, Call("sleep", RETRY_DELAY))
    /\ attempt' = attempt + 1
    /\ pc' = "connect"
    /\ UNCHANGED <<retry_limit, location_id, max_pages, chunk_size, page_num, params_page,
                   ads_data_list, exit, engine, start, appended, responses,
                   log, escaped>>

----------------------------------------------------------------------------
(* insert_to_db (lines 142-166) *)

\* a bug: the list is not tested
InsertCheckAlwaysConnects ==
    /\ pc = "fetched"
    /\ pc' = "connect"
    /\ UNCHANGED <<retry_limit, location_id, max_pages, chunk_size, page_num, params_page,
                   ads_data_list, exit, attempt, engine, start, appended,
                   responses, calls, log, escaped>>

\* line 146: search_olx_data has returned; the list is tested
InsertCheck ==
    /\ pc = "fetched"
    /\ IF ads_data_list # <<>>
       THEN /\ pc' = "connect"
            /\ log' = log
       ELSE /\ pc' = "main_sleep"
            /\ log' = Append(log, Log("warning", "no_data", location_id))
    /\ UNCHANGED <<retry_limit, location_id, max_pages, chunk_size, page_num, params_page,
                   ads_data_list, exit, attempt, engine, start, appended,
                   responses, calls, escaped>>

\* a bug: the slice ends one row early
ChunkEndOneShort(s, cs) == s + cs - 1

\* line 156
ChunkEnd(s, cs) == s + cs

\* line 157: df.iloc[s:e], with s and e zero-based and e clipped to the length
iloc(df, s, e) ==
    LET hi == IF e < Len(df) THEN e ELSE Len(df)
    IN  SubSeq(df, s + 1, hi)

\* a bug: successive chunks share a row
NextStartOverlaps(s, cs) == IF cs > 1 THEN s + cs - 1 ELSE s + cs

\* the step of range(0, len(df), chunk_size), line 155
NextStart(s, cs) == s + cs

\* line 158-159: the chunk is appended
AppendOk(outcome, df_chunk) ==
    /\ outcome = "ok"
    /\ appended' = Append(appended, df_chunk)
    /\ log' = Append(log, Log("info", "inserted", Len(df_chunk)))
    /\ start' = NextStart(start, chunk_size)
    /\ pc' = IF start' < Len(ads_data_list) THEN "chunks" ELSE "main_sleep"

\* a bug: the handler is inside the loop, which goes on with the next chunk
AppendFailsContinues(outcome) ==
    /\ outcome # "ok"
    /\ log' = Append(log, Log("error",
                               IF outcome = "SQLAlchemyError"
                               THEN "insert_sqlalchemy_error"
                               ELSE "insert_unexpected_error",
                               location_id))
    /\ start' = start + chunk_size
    /\ pc' = IF start' < Len(ads_data_list) THEN "chunks" ELSE "main_sleep"
    /\ UNCHANGED appended

\* line 158 raises: lines 161-164 log it and the function returns
AppendFails(outcome) ==
    /\ outcome # "ok"
    /\ log' = Append(log, Log("error",
                               IF outcome = "SQLAlchemyError"
                               THEN "insert_sqlalchemy_error"
                               ELSE "insert_unexpected_error",
                               location_id))
    /\ pc' = "main_sleep"
    /\ UNCHANGED <<appended, start>>

\* a bug: the connection is acquired anew for every chunk
ChunkAppendReconnects(outcome) ==
    /\ pc = "chunks"
    /\ start < Len(ads_data_list)
    /\ LET df_chunk == iloc(ads_data_list, start, ChunkEnd(start, chunk_size))
       IN  /\ calls' = calls \o <<Call("connect", 0), Call("to_sql", start)>>
           /\ \/ AppendOk(outcome, df_chunk)
              \/ AppendFails(outcome)
    /\ UNCHANGED <<retry_limit, location_id, max_pages, chunk_size, page_num, params_page,
                   ads_data_list, exit, attempt, engine, responses, escaped>>

\* lines 155-159: one pass of the chunk loop
ChunkAppend(outcome) ==
    /\ pc = "chunks"
    /\ start < Len(ads_data_list)
    /\ engine = "None" => outcome = "Exception"
    /\ LET df_chunk == iloc(ads_data_list, start, ChunkEnd(start, chunk_size))
       IN  /\ calls' = Append(calls, Call("to_sql", start))
           /\ \/ AppendOk(outcome, df_chunk)
              \/ AppendFails(outcome)
    /\ UNCHANGED <<retry_limit, location_id, max_pages, chunk_size, page_num, params_page,
                   ads_data_list, exit, attempt, engine, responses, escaped>>

----------------------------------------------------------------------------

Next ==
    \/ \E mp \in 0..MaxPages, cs \in 1..MaxChunk : InsertToDb(mp, cs)
    \/ MainReturn
    \/ MainSleep
    \/ WhileTest
    \/ \E resp \in Responses : FetchPage(resp)
    \/ FetchSleep
    \/ InsertCheck
    \/ \E outcome \in ConnectOutcomes : ConnectAttempt(outcome)
    \/ RetrySleep
    \/ \E outcome \in AppendOutcomes : ChunkAppend(outcome)

Spec == Init /\ [][Next]_vars

\* the program with RETRY_LIMIT left open
InitAnyLimit ==
    /\ InitState
    /\ retry_limit \in 0..MaxRetryLimit

NextAnyLimit ==
    \/ Next
    \/ ConnectLoopEnd

SpecAnyLimit == InitAnyLimit /\ [][NextAnyLimit]_vars

----------------------------------------------------------------------------
(* Vocabulary of the properties *)

CountCalls(op) == Len(SelectSeq(calls, LAMBDA c : c.op = op))

CountLogs(msg) == Len(SelectSeq(log, LAMBDA e : e.msg = msg))

\* search_olx_data is running
InFetch == pc \in {"while", "try", "sleep"}

\* search_olx_data has returned to insert_to_db
Returned == exit # "running" /\ escaped = NoException

NonEmptyOk(r) == r.ok /\ r.data # <<>>

EmptyOk(r) == r.ok /\ r.data = <<>>

\* the records of the first k responses: page by page, and within a page in
\* the order of the array
RECURSIVE RecordsOfPages(_, _, _)
RecordsOfPages(resps, k, location) ==
    IF k = 0 THEN <<>>
    ELSE RecordsOfPages(resps, k - 1, location)
            \o [i \in 1..Len(resps[k].data) |->
                    useful_data(resps[k].data[i], location, k - 1)]

----------------------------------------------------------------------------
(* C1: when page k is the first page with an empty 'data' array, after     *)
(* non-empty successful pages 0..k-1, search_olx_data returns the records  *)
(* of pages 0..k-1 and nothing else, k+1 requests have been issued and no  *)
(* further one is, whatever max_pages is.                                  *)
C1_EmptyPageEndsFetch ==
    \A k \in 0..(Len(responses) - 1) :
        (EmptyOk(responses[k + 1]) /\ \A p \in 1..k : NonEmptyOk(responses[p]))
            => /\ k < max_pages
               /\ Len(responses) = k + 1
               /\ CountCalls("GET") = k + 1
               /\ Returned
               /\ ~InFetch
               /\ ads_data_list = RecordsOfPages(responses, k, location_id)

\* page 1 is empty after a non-empty page 0, and max_pages allowed more pages
C1_Witness ==
    /\ pc = "fetched"
    /\ Len(responses) = 2
    /\ NonEmptyOk(responses[1])
    /\ EmptyOk(responses[2])
    /\ max_pages > 2
    /\ ads_data_list # <<>>

(* C2: with max_pages = N and every response successful and non-empty,     *)
(* search_olx_data issues exactly N GET requests and returns the records   *)
(* of all N pages; it never issues more than N requests.                   *)
C2_AllPagesFetched ==
    /\ CountCalls("GET") <= max_pages
    /\ (Returned /\ \A p \in 1..Len(responses) : NonEmptyOk(responses[p]))
            => /\ CountCalls("GET") = max_pages
               /\ Len(responses) = max_pages
               /\ ads_data_list = RecordsOfPages(responses, max_pages, location_id)

\* three non-empty pages were fetched with max_pages = 3
C2_Witness ==
    /\ pc = "fetched"
    /\ max_pages = 3
    /\ Len(responses) = 3
    /\ \A p \in 1..3 : NonEmptyOk(responses[p])
    /\ Len(ads_data_list) >= 3

(* C3: when the request for page k fails, search_olx_data returns the      *)
(* records of pages 0..k-1 and nothing else, issues no further request,    *)
(* logs the error, and no exception leaves it.                             *)
C3_RequestFailureEndsFetch ==
    \A k \in 0..(Len(responses) - 1) :
        ~responses[k + 1].ok
            => /\ Len(responses) = k + 1
               /\ CountCalls("GET") = k + 1
               /\ Returned
               /\ ~InFetch
               /\ pc # "crashed"
               /\ CountLogs("page_error") = 1
               /\ ads_data_list = RecordsOfPages(responses, k, location_id)

\* the request for page 1 failed after a non-empty page 0
C3_Witness ==
    /\ pc = "fetched"
    /\ Len(responses) = 2
    /\ NonEmptyOk(responses[1])
    /\ ~responses[2].ok
    /\ ads_data_list # <<>>

MissingIdOrTitle(l) == "id" \notin DOMAIN l \/ "title" \notin DOMAIN l

\* the keys of a record
RecordFields ==
    SourceFields \cup {"location_search", "page", "inserted_at"}

(* C4: every failure is caught at or below insert_to_db: whatever the      *)
(* outcomes for a query key, no exception leaves insert_to_db and main     *)
(* goes on to the next key.                                                *)
C4_NoFailureEndsRun ==
    /\ escaped = NoException
    /\ pc # "crashed"

(* C5: a listing without id or title is dropped and the page goes on: no   *)
(* exception leaves the page, and every other listing of the page that can *)
(* be normalized has its record in the list.                               *)
C5_MalformedListingDropped ==
    \A p \in 1..Len(responses) :
        LET d == responses[p].data
        IN  (\E i \in 1..Len(d) : MissingIdOrTitle(d[i]))
                => /\ escaped = NoException
                   /\ \A i \in 1..Len(d) :
                        ~RaisesKeyError(d[i])
                            => \E j \in 1..Len(ads_data_list) :
                                 ads_data_list[j] = useful_data(d[i], location_id, p - 1)

(* C6: normalization never throws on a listing that has id and title,      *)
(* whichever of the other source fields it has, and every record carries   *)
(* the full field set.                                                     *)
C6_NormalizationNeverThrows ==
    /\ \A j \in 1..Len(ads_data_list) : DOMAIN ads_data_list[j] = RecordFields
    /\ escaped = "KeyError"
            => LET d == responses[Len(responses)].data
               IN  MissingIdOrTitle(d[FirstRaising(d)])

----------------------------------------------------------------------------

RECURSIVE Flatten(_)
Flatten(chunks) ==
    IF chunks = <<>> THEN <<>>
    ELSE Flatten(SubSeq(chunks, 1, Len(chunks) - 1)) \o chunks[Len(chunks)]

CeilDiv(a, b) == (a + b - 1) \div b

\* insert_to_db has just returned to main
InsertOver == pc = "main_sleep"

InsertErrors == CountLogs("insert_sqlalchemy_error") + CountLogs("insert_unexpected_error")

\* the start rows of the to_sql calls, in call order
AppendStarts ==
    LET c == SelectSeq(calls, LAMBDA x : x.op = "to_sql")
    IN  [j \in 1..Len(c) |-> c[j].arg]

(* C7: when the connection is made and every append succeeds, a list of L  *)
(* records (L >= 1) is appended in exactly ceil(L/C) calls for chunk size  *)
(* C: every chunk has C records but the last, which has L mod C or C; the  *)
(* chunks start at rows 0, C, 2C, ... and put end to end they are the list.*)
C7_Chunking ==
    (InsertOver /\ engine = "engine" /\ InsertErrors = 0)
        => LET L == Len(ads_data_list)
               C == chunk_size
               n == CeilDiv(L, C)
           IN  /\ L >= 1
               /\ CountCalls("to_sql") = n
               /\ Len(appended) = n
               /\ \A j \in 1..(n - 1) : Len(appended[j]) = C
               /\ Len(appended[n]) = (IF L % C = 0 THEN C ELSE L % C)
               /\ AppendStarts = [j \in 1..n |-> (j - 1) * C]
               /\ Flatten(appended) = ads_data_list

\* three records or more went out in chunks of two, the last chunk short
C7_Witness ==
    /\ pc = "main_sleep"
    /\ engine = "engine"
    /\ InsertErrors = 0
    /\ chunk_size = 2
    /\ Len(ads_data_list) % 2 = 1
    /\ Len(appended) >= 2

(* C8: create_engine_with_retry makes exactly RETRY_LIMIT connection       *)
(* attempts when every attempt fails, and only then raises; after an       *)
(* attempt that succeeds it makes no further attempt.                      *)
C8_ConnectionRetries ==
    /\ CountCalls("connect") <= RETRY_LIMIT
    /\ CountLogs("max_retries") > 0
            => /\ CountCalls("connect") = RETRY_LIMIT
               /\ CountLogs("connect_error") = RETRY_LIMIT
               /\ CountLogs("connected") = 0
               /\ engine = "None"
    /\ CountLogs("connect_error") = RETRY_LIMIT => CountLogs("max_retries") = 1
    /\ CountLogs("connected") > 0
            => /\ CountLogs("connected") = 1
               /\ CountCalls("connect") = CountLogs("connect_error") + 1
               /\ engine = "engine"

\* every attempt failed and the error was raised
C8_Witness ==
    /\ pc = "main_sleep"
    /\ CountLogs("max_retries") = 1
    /\ CountCalls("connect") = RETRY_LIMIT

(* C9: when search_olx_data returns no record, insert_to_db makes no       *)
(* connection attempt and no append, and logs that there is no data to     *)
(* insert; it logs that in no other case.                                  *)
C9_NoRecordsSkipsStorage ==
    /\ (Returned /\ ads_data_list = <<>>)
            => /\ CountCalls("connect") = 0
               /\ CountCalls("to_sql") = 0
               /\ appended = <<>>
               /\ engine = "None"
               /\ pc # "fetched" => (InsertOver /\ CountLogs("no_data") = 1)
    /\ CountLogs("no_data") > 0 => ads_data_list = <<>>

\* the request for page 0 failed and the key was passed over
C9_Witness ==
    /\ pc = "main_sleep"
    /\ exit = "request_failed"
    /\ ads_data_list = <<>>
    /\ CountLogs("no_data") = 1

\* an append of the current call has failed
ChunkFailed == engine = "engine" /\ InsertErrors > 0

(* C10: when the append of chunk i fails, the failure is logged once, the  *)
(* call ends without another append (chunk i is not tried again, no later  *)
(* chunk is tried), and the appended rows are the first i chunks.          *)
C10_ChunkFailureAborts ==
    ChunkFailed
        => LET i == Len(appended)
               C == chunk_size
           IN  /\ InsertErrors = 1
               /\ InsertOver
               /\ CountCalls("to_sql") = i + 1
               /\ AppendStarts = [j \in 1..(i + 1) |-> (j - 1) * C]
               /\ i * C < Len(ads_data_list)
               /\ \A j \in 1..i : Len(appended[j]) = C
               /\ Flatten(appended) = SubSeq(ads_data_list, 1, i * C)

\* the second chunk failed, with a third one left
C10_Witness ==
    /\ pc = "main_sleep"
    /\ ChunkFailed
    /\ Len(appended) = 1
    /\ 2 * chunk_size < Len(ads_data_list)

----------------------------------------------------------------------------
(* C11: when the request for page k >= 1 fails after pages that yielded    *)
(* records, no later page is requested, the storage writer is not skipped, *)
(* and once the connection is made and every append has succeeded the      *)
(* appended rows are the records of pages 0..k-1.                          *)
C11_EarlierPagesPersisted ==
    \A k \in 1..(Len(responses) - 1) :
        ~responses[k + 1].ok
            => /\ Len(responses) = k + 1
               /\ CountLogs("no_data") = 0
               /\ pc \in {"fetched", "connect", "retry_sleep", "chunks", "main_sleep"}
               /\ (InsertOver /\ engine = "engine" /\ InsertErrors = 0)
                    => /\ Flatten(appended) # <<>>
                       /\ Flatten(appended) = RecordsOfPages(responses, k, location_id)

\* the request for page 2 failed and the records of pages 0 and 1 were appended
C11_Witness ==
    /\ pc = "main_sleep"
    /\ Len(responses) = 3
    /\ ~responses[3].ok
    /\ engine = "engine"
    /\ InsertErrors = 0
    /\ Len(Flatten(appended)) >= 2

(* C12: search_olx_data always ends, and ends in one of three ways only:   *)
(* on an empty page, on reaching max_pages, or on a failed request.        *)
(* Stated on the states in which the fetch of the current key is over.     *)
C12_FetchEndsInTerminalState ==
    (~InFetch /\ pc \notin {"main_loop", "done"})
        => /\ exit \in {"empty_page", "max_pages", "request_failed"}
           /\ escaped = NoException

(* C13: when the connection attempts are exhausted the raised error ends   *)
(* the insertion of that key: no append call is made, insert_to_db catches *)
(* the error and logs it once, and control is back in main, which goes on  *)
(* with its loop.                                                          *)
C13_ExhaustedRetriesAbortKey ==
    CountLogs("max_retries") > 0
        => /\ CountCalls("to_sql") = 0
           /\ appended = <<>>
           /\ engine = "None"
           /\ CountLogs("insert_sqlalchemy_error") = 1
           /\ CountLogs("insert_unexpected_error") = 0
           /\ log[Len(log)].msg = "insert_sqlalchemy_error"
           /\ escaped = NoException
           /\ pc = "main_sleep"
           /\ ENABLED MainSleep

\* the attempts for the first key are exhausted, with another key to come
C13_Witness ==
    /\ CountLogs("max_retries") = 1
    /\ location_id < LastLocation
    /\ ads_data_list # <<>>
    /\ pc = "main_sleep"

\* the positions of the GET requests among the calls of the current key
GetIndexes == {i \in 1..Len(calls) : calls[i].op = "GET"}

(* C14: between two successive page requests of a key there is exactly one *)
(* pause of the inter-request delay: every request but the first comes     *)
(* right after one pause that itself follows the previous request; and no  *)
(* pause follows a request whose page was empty or which failed.           *)
C14_OnePauseBetweenRequests ==
    /\ \A i \in GetIndexes :
            \/ i = 1
            \/ /\ i >= 3
               /\ calls[i - 1] = Call("sleep", PAGE_DELAY)
               /\ calls[i - 2].op = "GET"
    /\ \A k \in 1..Len(responses) :
            (~responses[k].ok \/ EmptyOk(responses[k]))
                => LET g == 2 * k - 1
                   IN  /\ g \in GetIndexes
                       /\ \A i \in GetIndexes : i <= g
                       /\ g < Len(calls) => calls[g + 1].op = "connect"

\* two pages were fetched with a pause between them, the third was empty,
\* and the next call was the first connection attempt
C14_Witness ==
    /\ Len(responses) = 3
    /\ EmptyOk(responses[3])
    /\ Len(calls) >= 6
    /\ calls[2] = Call("sleep", PAGE_DELAY)
    /\ calls[3].op = "GET"
    /\ calls[6].op = "connect"

\* the page parameters of the GET requests of the current key, in order
GetParams ==
    LET g == SelectSeq(calls, LAMBDA c : c.op = "GET")
    IN  [j \in 1..Len(g) |-> g[j].arg]

(* C15: the request for page 0 carries no page parameter and the request   *)
(* for page p >= 1 carries page = p; the j-th request of a key is the one  *)
(* for page j-1, the value of the page counter when it is issued.          *)
C15_PageParameterFollowsCounter ==
    /\ GetParams = [j \in 1..Len(GetParams) |-> IF j = 1 THEN NoPage ELSE j - 1]
    /\ pc \in {"while", "try"} => Len(GetParams) = page_num
    /\ pc = "sleep" => Len(GetParams) = page_num
    /\ pc \in {"fetched", "crashed"} /\ exit # "max_pages" => Len(GetParams) = page_num + 1
    /\ pc = "try" => params_page = (IF page_num <= 1 THEN NoPage ELSE page_num - 1)

\* pages 0, 1 and 2 have been requested
C15_Witness ==
    /\ Len(GetParams) = 3
    /\ GetParams[1] = NoPage
    /\ GetParams[3] = 2
    /\ page_num = 3

\* the ids of the records found on page p, in the order of the list
RecordIdsOfPage(p) ==
    LET recs == SelectSeq(ads_data_list, LAMBDA r : r.page = p)
    IN  [i \in 1..Len(recs) |-> recs[i].id]

\* the ids of the listings of a 'data' array, in the order of the array
ListingIds(d) == [i \in 1..Len(d) |-> d[i]["id"]]

(* C16: every record search_olx_data returns carries the query key of the  *)
(* call as location_search and, as page, the zero-based index of the       *)
(* request whose response held its listing; the records are in             *)
(* non-decreasing page order and, within a page, in the order of the       *)
(* listings of the response.                                               *)
C16_RecordsTaggedAndOrdered ==
    Returned
        => /\ \A j \in 1..Len(ads_data_list) :
                LET r == ads_data_list[j]
                IN  /\ r.location_search = location_id
                    /\ r.page \in 0..(Len(responses) - 1)
                    /\ \E i \in 1..Len(responses[r.page + 1].data) :
                            responses[r.page + 1].data[i]["id"] = r.id
           /\ \A j \in 1..(Len(ads_data_list) - 1) :
                ads_data_list[j].page <= ads_data_list[j + 1].page
           /\ \A p \in 0..(Len(responses) - 1) :
                RecordIdsOfPage(p) = ListingIds(responses[p + 1].data)

\* records of two pages, the second one with two listings, for the second key
C16_Witness ==
    /\ pc = "fetched"
    /\ location_id = FIRST_LOCATION + 1
    /\ Len(ads_data_list) = 3
    /\ ads_data_list[1].page = 0
    /\ ads_data_list[2].page = 1
    /\ ads_data_list[3].page = 1
    /\ ads_data_list[2].id # ads_data_list[3].id

\* the phase of insert_to_db a call belongs to: fetching, connecting, appending
CallPhase(c) ==
    CASE c.op = "GET" -> 1
      [] c = Call("sleep", PAGE_DELAY) -> 1
      [] c.op = "connect" -> 2
      [] c = Call("sleep", RETRY_DELAY) -> 2
      [] c.op = "to_sql" -> 3

\* the attempt numbers of the connection attempts of the current key, in order
ConnectAttempts ==
    LET c == SelectSeq(calls, LAMBDA x : x.op = "connect")
    IN  [j \in 1..Len(c) |-> c[j].arg]

(* C17: for a key with at least one record the connection is acquired by   *)
(* one run of the retry loop per insert_to_db call: its attempts come      *)
(* after every page request of the key and before every append, at most    *)
(* one of them succeeds, every append is made with the engine it gave, and *)
(* a call starts without an engine.                                        *)
C17_OneConnectionPerKey ==
    /\ \A i \in 1..(Len(calls) - 1) : CallPhase(calls[i]) <= CallPhase(calls[i + 1])
    /\ ConnectAttempts = [j \in 1..Len(ConnectAttempts) |-> j - 1]
    /\ CountLogs("connected") <= 1
    /\ (engine = "engine") <=> (CountLogs("connected") = 1)
    /\ CountCalls("to_sql") > 0 => engine = "engine"
    /\ CountCalls("connect") > 0 => (Returned /\ ads_data_list # <<>>)
    /\ (InFetch \/ pc = "fetched") => (engine = "None" /\ CountCalls("connect") = 0)
    /\ (InsertOver /\ Returned /\ ads_data_list # <<>>) => CountCalls("connect") >= 1

\* the second key: the connection was made at the second attempt, after two
\* page requests, and two chunks went through it
C17_Witness ==
    /\ pc = "main_sleep"
    /\ location_id = FIRST_LOCATION + 1
    /\ CountCalls("GET") >= 2
    /\ ConnectAttempts = <<0, 1>>
    /\ engine = "engine"
    /\ Len(appended) = 2

RetryPause == Call("sleep", RETRY_DELAY)

(* C18: in create_engine_with_retry every connection attempt but the first *)
(* comes right after one pause of the retry delay that itself follows the  *)
(* previous attempt; a pause follows a failed attempt only, and none       *)
(* follows the attempt that succeeds or the last failed attempt.           *)
C18_PauseBetweenAttempts ==
    /\ \A i \in 1..Len(calls) :
            calls[i].op = "connect"
                => IF calls[i].arg = 0
                   THEN i > 1 /\ calls[i - 1] # RetryPause
                   ELSE /\ i >= 3
                        /\ calls[i - 1] = RetryPause
                        /\ calls[i - 2].op = "connect"
    /\ \A i \in 1..Len(calls) :
            calls[i] = RetryPause
                => /\ i > 1 /\ calls[i - 1].op = "connect"
                   /\ i < Len(calls) => calls[i + 1].op = "connect"
    /\ Len(SelectSeq(calls, LAMBDA c : c = RetryPause)) <= RETRY_LIMIT - 1
    /\ CountLogs("connected") > 0
            => \A i \in 1..Len(calls) :
                 (calls[i].op = "connect" /\ calls[i].arg = attempt /\ i < Len(calls))
                    => calls[i + 1].op = "to_sql"
    /\ CountLogs("max_retries") > 0 => calls[Len(calls)] = Call("connect", RETRY_LIMIT - 1)

\* the third attempt succeeded after two pauses and a chunk was appended
C18_Witness ==
    /\ CountLogs("connected") = 1
    /\ attempt = 2
    /\ Len(SelectSeq(calls, LAMBDA c : c = RetryPause)) = 2
    /\ CountCalls("to_sql") >= 1

(* C19: within one insert_to_db call the rows appended so far are always a *)
(* prefix of the fetched list; the append calls, failed ones included,     *)
(* cover disjoint slices of it, so no fetched record is written twice.     *)
C19_AppendedIsPrefix ==
    LET rows == Flatten(appended)
    IN  /\ Len(rows) <= Len(ads_data_list)
        /\ rows = SubSeq(ads_data_list, 1, Len(rows))
        /\ \A i, j \in 1..Len(rows) : i # j => rows[i] # rows[j]
        /\ \A j \in 1..(Len(AppendStarts) - 1) :
                AppendStarts[j] + chunk_size <= AppendStarts[j + 1]
        /\ Len(appended) <= CountCalls("to_sql")
        /\ CountCalls("to_sql") <= Len(appended) + 1

\* two chunks are appended and the third has failed: a proper prefix
C19_Witness ==
    /\ pc = "main_sleep"
    /\ Len(appended) = 2
    /\ CountCalls("to_sql") = 3
    /\ Len(Flatten(appended)) < Len(ads_data_list)

(* C20: for every RETRY_LIMIT >= 1, create_engine_with_retry returns       *)
(* normally only with an engine whose connection was verified in the same  *)
(* call: the chunk loop is entered with that engine, and every append call *)
(* comes after a connection attempt of the same call that succeeded.       *)
C20_AppendOnlyAfterConnection ==
    retry_limit >= 1
        => /\ pc = "chunks" => (engine = "engine" /\ CountLogs("connected") = 1)
           /\ \A j \in 1..Len(calls) :
                calls[j].op = "to_sql"
                    => /\ engine = "engine"
                       /\ CountLogs("connected") = 1
                       /\ \E i \in 1..(j - 1) :
                            calls[i] = Call("connect", attempt)

\* RETRY_LIMIT = 1: the only attempt succeeded and a chunk was appended
C20_Witness ==
    /\ retry_limit = 1
    /\ engine = "engine"
    /\ Len(appended) >= 1
    /\ CountCalls("connect") = 1
====
